---- MODULE Spec2Model ----
(***************************************************************************)
(* Video Narrator Pro: the frame-to-scene-to-script pipeline of            *)
(* src/src/core/video_analyzer.py and src/src/core/narrative_generator.py. *)
(*                                                                         *)
(* One pipeline for one video: a VideoAnalyzer samples the video,          *)
(* describes every frame and writes the analysis record; a                 *)
(* NarrativeGenerator loads that record, groups the descriptions into      *)
(* scenes, narrates every scene, polishes the joined draft and writes the  *)
(* narration text and the timing record.                                   *)
(*                                                                         *)
(* Texts are sequences of one-character strings, so that lower-casing,     *)
(* substring search, trimming and joining are computed as Python does.     *)
(* The video duration is held in half seconds, so that int(video.duration) *)
(* truncates.                                                              *)
(***************************************************************************)
EXTENDS Integers, Sequences, FiniteSets, TLC

\* ---------------------------------------------------------------- bounds

\* Longest video, in half seconds (duration = MaxHalves / 2 seconds).
MaxHalves == 8

\* Largest frame_interval, in seconds.
MaxInterval == 2

\* ----------------------------------------------------------------- texts

UpperCase ==
  <<"A", "B", "C", "D", "E", "F", "G", "H", "I", "J", "K", "L", "M",
    "N", "O", "P", "Q", "R", "S", "T", "U", "V", "W", "X", "Y", "Z">>

LowerCase ==
  <<"a", "b", "c", "d", "e", "f", "g", "h", "i", "j", "k", "l", "m",
    "n", "o", "p", "q", "r", "s", "t", "u", "v", "w", "x", "y", "z">>

\* str.lower() on one character.
LowerChar(c) ==
  IF \E i \in 1..Len(UpperCase) : UpperCase[i] = c
  THEN LowerCase[CHOOSE i \in 1..Len(UpperCase) : UpperCase[i] = c]
  ELSE c

\* The case-sensitive slip: the text is searched as it is.
KeepCase(s) == s

\* str.lower()
ToLower(s) == [i \in 1..Len(s) |-> LowerChar(s[i])]

\* term in s (Python's substring test)
Contains(term, s) ==
  \E k \in 0..(Len(s) - Len(term)) :
    \A j \in 1..Len(term) : s[k + j] = term[j]

\* The fixed list of identify_scenes.
TransitionTerms ==
  { <<"m", "o", "v", "i", "n", "g", " ", "t", "o">>,
    <<"e", "n", "t", "e", "r", "i", "n", "g">>,
    <<"s", "t", "e", "p", "p", "i", "n", "g", " ", "i", "n", "t", "o">>,
    <<"n", "e", "x", "t", " ", "w", "e", " ", "h", "a", "v", "e">>,
    <<"m", "o", "v", "i", "n", "g", " ", "i", "n", "t", "o">>,
    <<"h", "e", "a", "d", "i", "n", "g", " ", "t", "o">>,
    <<"w", "a", "l", "k", "i", "n", "g", " ", "i", "n", "t", "o">>,
    <<"n", "o", "w", " ", "i", "n">> }

\* Characters str.strip() removes.
Whitespace == {" ", "\n", "\t", "\r"}

RECURSIVE LStrip(_)
LStrip(s) ==
  IF s # <<>> /\ Head(s) \in Whitespace THEN LStrip(Tail(s)) ELSE s

RECURSIVE RStrip(_)
RStrip(s) ==
  IF s # <<>> /\ s[Len(s)] \in Whitespace
  THEN RStrip(SubSeq(s, 1, Len(s) - 1))
  ELSE s

\* str.strip()
Strip(s) == RStrip(LStrip(s))

\* sep.join(parts)
RECURSIVE Join(_, _)
Join(sep, parts) ==
  IF parts = <<>> THEN <<>>
  ELSE IF Len(parts) = 1 THEN parts[1]
  ELSE parts[1] \o sep \o Join(sep, Tail(parts))

\* The separators of create_scene_narration and create_complete_narration.
LineSep == <<"\n">>
BlankLineSep == <<"\n", "\n">>

\* What the vision capability may answer for a frame: a plain text between
\* a blank and a line break, one with a capitalised transition phrase, one
\* with a phrase inside other words, one that only starts like a phrase.
DescribeTexts ==
  { <<" ", "a", "\n">>,
    <<"N", "o", "w", " ", "i", "n">>,
    <<"s", "n", "o", "w", " ", "i", "n", "k">>,
    <<"e", "n", "t", "e", "r">> }

\* message.content of a response that carries no text (None): no text, a
\* text being a sequence of single characters, equals it.
NoContent == <<"None">>

\* What the text-generation capability may answer.
GenerateTexts ==
  { <<"A">>,
    <<" ", "B", "\n">> }

\* What the text-generation capability may answer to the polishing request:
\* any text, one carrying a bracketed time tag included.
PolishTexts ==
  GenerateTexts \cup { <<"[", "0", "0", ":", "0", "1", "]", " ", "A">> }

\* A file that was not written, one whose write was interrupted, and one
\* written in full.
NoFile == [state |-> "absent", content |-> <<>>]
Partial == [state |-> "partial", content |-> <<>>]
Written(content) == [state |-> "written", content |-> content]

\* -------------------------------------------------------- frame sampler

\* list(range(t, stop, step)) for step >= 1
RECURSIVE Range(_, _, _)
Range(t, stop, step) ==
  IF t >= stop THEN <<>> ELSE <<t>> \o Range(t + step, stop, step)

\* The duration rounded to the nearest second, halves going up.
RoundDuration(halves) == (halves + 1) \div 2

\* int(video.duration), the duration being halves / 2 seconds
IntDuration(halves) == halves \div 2

\* Frame times that stop where a whole interval no longer fits.
FrameTimesWholeIntervals(halves, interval) ==
  Range(0, IntDuration(halves) - interval + 1, interval)

\* frame_times of extract_frames
FrameTimes(halves, interval) == Range(0, IntDuration(halves), interval)

\* The entries extract_frames appends to frame_data for frame_times.
FrameEntries(times) ==
  [i \in 1..Len(times) |->
     [timestamp |-> times[i], index |-> i, total_frames |-> Len(times)]]

\* ------------------------------------------------------- scene segmenter

\* is_transition of identify_scenes
IsTransition(narration) ==
  \E term \in TransitionTerms : Contains(term, ToLower(narration))

\* The split condition without its guard on the open scene.
SplitUnguarded(is_transition, current_scene) == is_transition

\* if is_transition and current_scene
SplitHere(is_transition, current_scene) ==
  is_transition /\ current_scene # <<>>

\* The loop's end without the final append.
DropFinalScene(scenes, current_scene) == scenes

\* if current_scene: scenes.append(current_scene)
AddFinalScene(scenes, current_scene) ==
  IF current_scene # <<>> THEN Append(scenes, current_scene) ELSE scenes

\* The loop of identify_scenes over the frames still to visit.
RECURSIVE ScanFrames(_, _, _)
ScanFrames(frames, scenes, current_scene) ==
  IF frames = <<>>
  THEN AddFinalScene(scenes, current_scene)
  ELSE LET frame == Head(frames)
       IN IF SplitHere(IsTransition(frame.narration), current_scene)
          THEN ScanFrames(Tail(frames), Append(scenes, current_scene), <<frame>>)
          ELSE ScanFrames(Tail(frames), scenes, Append(current_scene, frame))

\* identify_scenes on the frames of the loaded analysis
IdentifyScenes(frames) == ScanFrames(frames, <<>>, <<>>)

\* ----------------------------------------------------------------- state

VARIABLES
  pc,                \* where the pipeline's thread of control stands
  duration,          \* video.duration, in half seconds
  frame_interval,    \* VideoAnalyzer.frame_interval
  frame_data,        \* VideoAnalyzer.frame_data
  analysis_results,  \* analysis_results of analyze_video
  describeLog,       \* timestamps of the frames sent to the vision capability
  describeReturns,   \* what the vision capability answered, in order
  analysisFile,      \* <base_name>_analysis.json: its 'frames'
  analysisOutcome,   \* what analyze_video gave its caller
  identifyCalls,     \* how many times identify_scenes was called
  analysis_data,     \* NarrativeGenerator.analysis_data['frames']
  scenes,            \* scenes of create_complete_narration
  scene_narrations,  \* scene_narrations of create_complete_narration
  timing_data,       \* timing_data of create_complete_narration
  genLog,            \* requests sent to the text-generation capability
  genReturns,        \* its answers to the scene requests, as received
  polishReturn,      \* its answer to the polishing request, as received
  polished_narration,\* polished_narration of create_complete_narration
  narrationFile,     \* <base_name>_narration.txt
  timingFile,        \* <base_name>_timing.json: its 'scene_timings'
  scriptOutcome,     \* what generate_script gave its caller
  failedAt,          \* the step that raised, with its item; "none" before
  raised,            \* the exception that reached the caller, as raised
  templates,         \* TemplateManager.templates: template id -> Template
  templateOp,        \* the last operation made on a template, with its input
  clock,             \* the wall clock, in half seconds
  runs,              \* the analyzers and generators constructed, in order
  frameFiles,        \* timestamps t with a file frame_<t>.jpg in frames_dir
  framesDirExists,   \* frames_dir.exists()
  context,           \* the with statement around the analyzer
  unlinkFailed,      \* timestamps of the frame files cleanup could not delete
  callerGot,         \* what came out of the with statement
  repeatCalls,       \* further analyze_video calls made on the instance
  processing,        \* AnalysisTab.processing, NarrationTab.processing
  startButton,       \* the state of analyze_btn and of generate_btn
  workers,           \* the worker threads each tab started, still running
  posted,            \* the callbacks given to after(0, ...), not yet run
  is_active,         \* ProgressTracker._is_active of the shared tracker
  handlersRun,       \* the handlers run for the latest run of each tab
  startIgnored,      \* a start request was dropped during the tab's run
  customPromptsFile, \* custom_prompts.json, where the store is followed
  dialog             \* the PromptEditorDialog, with what it showed at first

vars ==
  <<pc, duration, frame_interval, frame_data, analysis_results, describeLog,
    describeReturns, analysisFile, analysisOutcome, identifyCalls,
    analysis_data, scenes, scene_narrations, timing_data, genLog, genReturns,
    polishReturn, polished_narration, narrationFile, timingFile,
    scriptOutcome, failedAt, raised, templates, templateOp, clock, runs,
    frameFiles, framesDirExists, context, unlinkFailed, callerGot,
    repeatCalls, processing, startButton, workers, posted, is_active,
    handlersRun, startIgnored, customPromptsFile, dialog>>

analyzerVars ==
  <<duration, frame_interval, frame_data, analysis_results, describeLog,
    describeReturns, analysisFile, analysisOutcome>>

generatorVars ==
  <<identifyCalls, analysis_data, scenes, scene_narrations, timing_data,
    genLog, genReturns, polishReturn, polished_narration, narrationFile,
    timingFile, scriptOutcome>>

environmentVars == <<templates, templateOp, clock, runs>>

contextVars ==
  <<frameFiles, framesDirExists, context, unlinkFailed, callerGot,
    repeatCalls>>

guiVars ==
  <<processing, startButton, workers, posted, is_active, handlersRun,
    startIgnored>>

appVars == <<guiVars, customPromptsFile, dialog>>

NoFailure == [step |-> "none", item |-> 0]

\* Exceptions, by type and by what their text names. The handlers log and
\* re-raise the exception they caught, so the caller gets it as it was
\* raised: by the capability's client, by open() or by the interpreter.
NoException == [type |-> "none", names |-> "nothing", item |-> 0]
ApiError == [type |-> "APIError", names |-> "nothing", item |-> 0]
AttributeError == [type |-> "AttributeError", names |-> "nothing", item |-> 0]
IndexError == [type |-> "IndexError", names |-> "nothing", item |-> 0]
PathError == [type |-> "OSError", names |-> "path", item |-> 0]

\* open(frame_info['frame_path']) failing: the text names frame_<t>.jpg.
FrameFileError(frame) ==
  [type |-> "OSError", names |-> "frame_path", item |-> frame.timestamp]

\* What a step raises when nothing else is said: a file step an OSError,
\* lower() of None an AttributeError, a call of a capability its error.
StepException(step) ==
  IF step \in {"construct", "extract", "save", "load", "write_narration",
               "write_timing"}
  THEN PathError
  ELSE IF step = "identify" THEN AttributeError ELSE ApiError

\* ------------------------------------------------------------ templates

\* The ids of the templates _initialize_defaults makes.
TemplateIds == {"room-tour", "outdoor-scene", "event-coverage",
                "product-showcase"}

\* The built-in prompt of a kind ("analysis", "narration") of a template:
\* a text of its own for every kind and template.
DefaultPrompt(kind, id) == <<kind, ":", id>>

\* What a custom prompt field may hold: None, the empty text, a text.
CustomPrompts == {NoContent, <<>>, <<"p">>}

\* Template(...) as _initialize_defaults constructs it
BuiltInTemplate(id) ==
  [id |-> id,
   default_analysis_prompt |-> DefaultPrompt("analysis", id),
   default_narration_prompt |-> DefaultPrompt("narration", id),
   custom_analysis_prompt |-> NoContent,
   custom_narration_prompt |-> NoContent]

\* a or b of Python, for a an Optional[str]: None and '' are false
Or(a, b) == IF a # NoContent /\ a # <<>> THEN a ELSE b

\* Template.analysis_prompt
analysis_prompt(template) ==
  Or(template.custom_analysis_prompt, template.default_analysis_prompt)

\* The narration prompt read from the analysis override.
NarrationPromptCrossed(template) ==
  Or(template.custom_analysis_prompt, template.default_narration_prompt)

\* Template.narration_prompt
narration_prompt(template) ==
  Or(template.custom_narration_prompt, template.default_narration_prompt)

\* Template.reset_to_defaults
reset_to_defaults(template) ==
  [template EXCEPT !.custom_analysis_prompt = NoContent,
                   !.custom_narration_prompt = NoContent]

\* Template.is_customized: bool(a or b), None standing for itself
is_customized(template) ==
  LET either == Or(template.custom_analysis_prompt,
                   template.custom_narration_prompt)
  IN either # NoContent /\ either # <<>>

NoTemplateOp == [op |-> "none", id |-> "none", value |-> NoContent]

\* ---------------------------------------------------- output directories

\* datetime.now().strftime("%Y%m%d_%H%M%S"): the clock cut to whole seconds
Timestamp(halves) == halves \div 2

\* FileHandler.setup_output_directory(base_name, parent_dir): the path
\* parent_dir / f"{base_name}_{timestamp}", made if it does not exist yet.
SetupOutputDirectory(base_name, parent_dir, now) ==
  [parent |-> parent_dir, base_name |-> base_name, timestamp |-> Timestamp(now)]

\* f"{self.base_name}_narration"
NarrationBaseName(base_name) ==
  base_name \o <<"_", "n", "a", "r", "r", "a", "t", "i", "o", "n">>

\* Path(video_path).stem of the videos, which is also the video_name of
\* their analysis files; and the directories the user may choose.
BaseNames == { <<"x">>, NarrationBaseName(<<"x">>) }
ParentDirs == {"out", "other"}

\* What came out of a with statement: nothing yet, the value of the call
\* or the exception that left the block.
NothingYet == [kind |-> "nothing", exception |-> NoException]
ResultOut == [kind |-> "result", exception |-> NoException]
ErrorOut(exception) == [kind |-> "error", exception |-> exception]

\* No analyzer constructed: no frames directory, no with statement.
IdleContext ==
  /\ frameFiles = {}
  /\ framesDirExists = FALSE
  /\ context = "none"
  /\ unlinkFailed = {}
  /\ callerGot = NothingYet
  /\ repeatCalls = 0

\* The two tabs of the main window.
Tabs == {"analysis", "narration"}

\* The window as create_tabs leaves it: nothing processing, both start
\* buttons enabled, the shared tracker as ProgressTracker.__init__ makes it.
IdleGui ==
  /\ processing = [tab \in Tabs |-> FALSE]
  /\ startButton = [tab \in Tabs |-> "normal"]
  /\ workers = [tab \in Tabs |-> <<>>]
  /\ posted = <<>>
  /\ is_active = FALSE
  /\ handlersRun = [tab \in Tabs |-> <<>>]
  /\ startIgnored = [tab \in Tabs |-> FALSE]

\* custom_prompts.json: absent, unreadable, not JSON, or a JSON object
\* whose entries are kept in the order of the file; the data of an entry is
\* a dict with the two custom prompts or something else.
NoPromptsFile == [state |-> "absent", entries |-> <<>>]
UnreadablePromptsFile == [state |-> "unreadable", entries |-> <<>>]
MalformedPromptsFile == [state |-> "malformed", entries |-> <<>>]
PromptsFile(entries) == [state |-> "json", entries |-> entries]

\* No prompt editor open.
NoDialog ==
  [open |-> FALSE, id |-> "none", analysis_text |-> <<>>,
   narration_text |-> <<>>, last |-> "none",
   opened_on |-> BuiltInTemplate("none")]

\* No store followed, no dialog.
IdleStore ==
  /\ customPromptsFile = NoPromptsFile
  /\ dialog = NoDialog

\* No template edited, no run started.
IdleEnvironment ==
  /\ templates = [id \in TemplateIds |-> BuiltInTemplate(id)]
  /\ templateOp = NoTemplateOp
  /\ clock = 0
  /\ runs = <<>>
  /\ IdleContext
  /\ IdleGui
  /\ IdleStore

\* The pipeline before anything is constructed.
IdlePipeline ==
  /\ pc = "idle"
  /\ duration = 0
  /\ frame_interval = 1
  /\ frame_data = <<>>
  /\ analysis_results = <<>>
  /\ describeLog = <<>>
  /\ describeReturns = <<>>
  /\ analysisFile = NoFile
  /\ analysisOutcome = "none"
  /\ identifyCalls = 0
  /\ analysis_data = <<>>
  /\ scenes = <<>>
  /\ scene_narrations = <<>>
  /\ timing_data = <<>>
  /\ genLog = <<>>
  /\ genReturns = <<>>
  /\ polishReturn = NoContent
  /\ polished_narration = NoContent
  /\ narrationFile = NoFile
  /\ timingFile = NoFile
  /\ scriptOutcome = "none"
  /\ failedAt = NoFailure
  /\ raised = NoException

Init ==
  /\ IdlePipeline
  /\ IdleEnvironment

\* raise, out of analyze_video, of the exception caught
AnalysisRaisesWith(step, item, exception) ==
  /\ pc' = "failed"
  /\ failedAt' = [step |-> step, item |-> item]
  /\ raised' = exception
  /\ analysisOutcome' = "raised"

\* raise, out of analyze_video
AnalysisRaises(step, item) ==
  AnalysisRaisesWith(step, item, StepException(step))

\* raise, out of generate_script, of the exception caught
ScriptRaisesWith(step, item, exception) ==
  /\ pc' = "failed"
  /\ failedAt' = [step |-> step, item |-> item]
  /\ raised' = exception
  /\ scriptOutcome' = "raised"

\* raise, out of generate_script
ScriptRaises(step, item) ==
  ScriptRaisesWith(step, item, StepException(step))

\* ------------------------------------------------------- video analyzer

\* VideoAnalyzer.__init__: the output directories are made, the results
\* storage starts empty. The video and the interval are the run's inputs.
NewAnalyzer ==
  /\ pc = "idle"
  /\ \/ /\ \E halves \in 0..MaxHalves, interval \in 1..MaxInterval :
             /\ duration' = halves
             /\ frame_interval' = interval
          /\ frame_data' = <<>>
          /\ framesDirExists' = TRUE
          /\ pc' = "extract"
          /\ UNCHANGED <<analysisOutcome, failedAt, raised>>
       \/ /\ AnalysisRaises("construct", 0)
          /\ UNCHANGED <<duration, frame_interval, frame_data,
                         framesDirExists>>
  /\ UNCHANGED <<analysis_results, describeLog, describeReturns,
                 analysisFile>>
  /\ UNCHANGED generatorVars
  /\ UNCHANGED environmentVars
  /\ UNCHANGED appVars
  /\ UNCHANGED <<frameFiles, context, unlinkFailed, callerGot, repeatCalls>>

\* The frame files image.save(frame_path) wrote for the first entries.
SavedFrames(entries, done) == {entries[i].timestamp : i \in 1..done}

\* extract_frames, called by analyze_video: every frame time is sampled and
\* its entry appended, or the video cannot be opened or a frame cannot be
\* read or saved, and the entries appended so far stay.
ExtractFrames ==
  /\ pc = "extract"
  /\ LET entries == FrameEntries(FrameTimes(duration, frame_interval))
     IN \/ /\ frame_data' = frame_data \o entries
           /\ frameFiles' = frameFiles \cup SavedFrames(entries, Len(entries))
           /\ pc' = "analyze"
           /\ UNCHANGED <<analysisOutcome, failedAt, raised>>
        \/ \E done \in 0..Len(entries) :
             /\ done < Len(entries) \/ entries = <<>>
             /\ frame_data' = frame_data \o SubSeq(entries, 1, done)
             /\ frameFiles' = frameFiles \cup SavedFrames(entries, done)
             /\ AnalysisRaises("extract", done + 1)
  /\ UNCHANGED <<duration, frame_interval, analysis_results, describeLog,
                 describeReturns, analysisFile>>
  /\ UNCHANGED generatorVars
  /\ UNCHANGED environmentVars
  /\ UNCHANGED appVars
  /\ UNCHANGED <<framesDirExists, context, unlinkFailed, callerGot,
                 repeatCalls>>

\* A describe failure that is logged and skipped: the loop goes on with the
\* next frame.
DescribeFailureSkipped(frame, called) ==
  /\ analysis_results' =
       Append(analysis_results,
              [timestamp |-> frame.timestamp, narration |-> <<>>])
  /\ failedAt' = [step |-> "describe", item |-> frame.index]
  /\ UNCHANGED <<pc, analysisOutcome, raised>>

\* A describe failure answered by trying the same frame again.
DescribeFailureRetried(frame, called) ==
  UNCHANGED <<pc, analysisOutcome, failedAt, raised, analysis_results>>

\* except in analyze_frame and in analyze_video: log and raise
DescribeFailure(frame, called) ==
  /\ AnalysisRaisesWith("describe", frame.index,
                        IF called THEN ApiError ELSE FrameFileError(frame))
  /\ UNCHANGED analysis_results

\* The frames visited from the last one back.
NextFrameReversed == frame_data[Len(frame_data) - Len(analysis_results)]

\* for frame in self.frame_data: the frame of the loop's next turn
NextFrame == frame_data[Len(analysis_results) + 1]

\* One turn of the loop of analyze_video: analyze_frame on the next frame of
\* frame_data, and its result stored. The frame file may not open (the
\* capability is not called), the call may fail, or it answers.
AnalyzeFrame ==
  /\ pc = "analyze"
  /\ Len(analysis_results) < Len(frame_data)
  /\ LET frame == NextFrame
     IN \/ \E description \in DescribeTexts \cup {NoContent} :
             /\ describeLog' = Append(describeLog, frame.timestamp)
             /\ describeReturns' = Append(describeReturns, description)
             /\ analysis_results' =
                  Append(analysis_results,
                         [timestamp |-> frame.timestamp,
                          narration |-> description])
             /\ UNCHANGED <<pc, analysisOutcome, failedAt, raised>>
        \/ \E called \in BOOLEAN :
             /\ describeLog' =
                  IF called THEN Append(describeLog, frame.timestamp)
                  ELSE describeLog
             /\ UNCHANGED describeReturns
             /\ DescribeFailure(frame, called)
  /\ UNCHANGED <<duration, frame_interval, frame_data, analysisFile>>
  /\ UNCHANGED generatorVars
  /\ UNCHANGED environmentVars
  /\ UNCHANGED appVars
  /\ UNCHANGED contextVars

\* The end of analyze_video: the results are written to the analysis file
\* and its path returned, or the write raises.
SaveAnalysis ==
  /\ pc = "analyze"
  /\ Len(analysis_results) = Len(frame_data)
  /\ \/ /\ analysisFile' = Written(analysis_results)
        /\ analysisOutcome' = "path"
        /\ pc' = "analysis_done"
        /\ UNCHANGED <<failedAt, raised>>
     \/ /\ analysisFile' \in {NoFile, Partial}
        /\ AnalysisRaises("save", 0)
  /\ UNCHANGED <<duration, frame_interval, frame_data, analysis_results,
                 describeLog, describeReturns>>
  /\ UNCHANGED generatorVars
  /\ UNCHANGED environmentVars
  /\ UNCHANGED appVars
  /\ UNCHANGED contextVars

\* -------------------------------------------------- narrative generator

\* NarrativeGenerator.__init__: the analysis file is read back (integers
\* and strings come back from JSON as they were written) and the output
\* directory made; either may raise.
NewGenerator ==
  /\ pc = "analysis_done"
  /\ \/ /\ analysis_data' = analysisFile.content
        /\ pc' = "identify"
        /\ UNCHANGED <<scriptOutcome, failedAt, raised>>
     \/ /\ ScriptRaises("load", 0)
        /\ UNCHANGED analysis_data
  /\ UNCHANGED <<scenes, scene_narrations, timing_data, genLog, genReturns,
                 polishReturn, polished_narration, narrationFile, timingFile>>
  /\ UNCHANGED identifyCalls
  /\ UNCHANGED analyzerVars
  /\ UNCHANGED environmentVars
  /\ UNCHANGED appVars
  /\ UNCHANGED contextVars

\* The start of create_complete_narration: identify_scenes. A description
\* that is None has no lower() and the call raises.
StartNarration ==
  /\ pc = "identify"
  /\ IF \E i \in 1..Len(analysis_data) : analysis_data[i].narration = NoContent
     THEN /\ ScriptRaises("identify", 0)
          /\ UNCHANGED <<scenes, scene_narrations, timing_data>>
     ELSE /\ scenes' = IdentifyScenes(analysis_data)
          /\ scene_narrations' = <<>>
          /\ timing_data' = <<>>
          /\ pc' = "narrate"
          /\ UNCHANGED <<scriptOutcome, failedAt, raised>>
  /\ UNCHANGED <<analysis_data, genLog, genReturns, polishReturn,
                 polished_narration, narrationFile, timingFile>>
  /\ identifyCalls' = identifyCalls + 1
  /\ UNCHANGED analyzerVars
  /\ UNCHANGED environmentVars
  /\ UNCHANGED appVars
  /\ UNCHANGED contextVars

\* descriptions of create_scene_narration
Descriptions(scene) == [i \in 1..Len(scene) |-> scene[i].narration]

\* The scene whose turn it is in the loop of create_complete_narration.
NextScene == Len(scene_narrations) + 1

\* create_scene_narration up to its request: the scene's descriptions are
\* joined and sent. An empty scene has no scene[0] and the call raises.
RequestSceneNarration ==
  /\ pc = "narrate"
  /\ NextScene <= Len(scenes)
  /\ LET scene == scenes[NextScene]
     IN IF scene = <<>>
        THEN /\ ScriptRaisesWith("narrate", NextScene, IndexError)
             /\ UNCHANGED genLog
        ELSE /\ genLog' =
                  Append(genLog,
                         [kind |-> "scene", item |-> NextScene,
                          content |-> Join(LineSep, Descriptions(scene))])
             /\ pc' = "narrate_wait"
             /\ UNCHANGED <<scriptOutcome, failedAt, raised>>
  /\ UNCHANGED <<analysis_data, scenes, scene_narrations, timing_data,
                 genReturns, polishReturn, polished_narration, narrationFile,
                 timingFile>>
  /\ UNCHANGED identifyCalls
  /\ UNCHANGED analyzerVars
  /\ UNCHANGED environmentVars
  /\ UNCHANGED appVars
  /\ UNCHANGED contextVars

\* A timing entry that ends where the scene starts.
SceneTimingStartOnly(scene) ==
  [start_time |-> scene[1].timestamp,
   end_time |-> scene[1].timestamp,
   original_descriptions |-> Descriptions(scene)]

\* timing_data of create_scene_narration
SceneTiming(scene) ==
  [start_time |-> scene[1].timestamp,
   end_time |-> scene[Len(scene)].timestamp,
   original_descriptions |-> Descriptions(scene)]

\* The rest of create_scene_narration and of the loop's turn: the answer is
\* trimmed and appended with the scene's timing, or the call raises (it
\* failed, or its answer carries no text to strip).
ReturnSceneNarration ==
  /\ pc = "narrate_wait"
  /\ \/ \E response \in GenerateTexts :
          /\ genReturns' = Append(genReturns, response)
          /\ scene_narrations' = Append(scene_narrations, Strip(response))
          /\ timing_data' = Append(timing_data, SceneTiming(scenes[NextScene]))
          /\ pc' = "narrate"
          /\ UNCHANGED <<scriptOutcome, failedAt, raised>>
     \/ /\ \E exception \in {ApiError, AttributeError} :
             ScriptRaisesWith("narrate", NextScene, exception)
        /\ UNCHANGED <<genReturns, scene_narrations, timing_data>>
  /\ UNCHANGED <<analysis_data, scenes, genLog, polishReturn,
                 polished_narration, narrationFile, timingFile>>
  /\ UNCHANGED identifyCalls
  /\ UNCHANGED analyzerVars
  /\ UNCHANGED environmentVars
  /\ UNCHANGED appVars
  /\ UNCHANGED contextVars

\* The draft joined with single line breaks.
JoinedByLine(narrations) == Join(LineSep, narrations)

\* full_narration of create_complete_narration
FullNarration(narrations) == Join(BlankLineSep, narrations)

\* The polishing request sent although scenes are still to narrate.
PolishAnyTime == TRUE

\* The loop of create_complete_narration has narrated every scene.
AllScenesNarrated == Len(scene_narrations) = Len(scenes)

\* After the loop: the draft is sent to the polishing call.
RequestPolish ==
  /\ pc = "narrate"
  /\ AllScenesNarrated
  /\ genLog' =
       Append(genLog,
              [kind |-> "polish", item |-> 0,
               content |-> FullNarration(scene_narrations)])
  /\ pc' = "polish_wait"
  /\ UNCHANGED <<analysis_data, scenes, scene_narrations, timing_data,
                 genReturns, polishReturn, polished_narration, narrationFile,
                 timingFile, scriptOutcome, failedAt, raised>>
  /\ UNCHANGED identifyCalls
  /\ UNCHANGED analyzerVars
  /\ UNCHANGED environmentVars
  /\ UNCHANGED appVars
  /\ UNCHANGED contextVars

\* A polishing failure answered with the unpolished draft, which goes on
\* to be saved.
PolishFailureFallsBack ==
  /\ polished_narration' = FullNarration(scene_narrations)
  /\ pc' = "write_narration"
  /\ failedAt' = [step |-> "polish", item |-> 0]
  /\ UNCHANGED <<scriptOutcome, raised>>

\* except in create_complete_narration and in generate_script: log and raise
PolishFailure ==
  /\ ScriptRaises("polish", 0)
  /\ UNCHANGED polished_narration

\* The end of create_complete_narration: the polishing answer, trimmed, is
\* the narration; or the call raises.
ReturnPolish ==
  /\ pc = "polish_wait"
  /\ \/ \E response \in PolishTexts :
          /\ polishReturn' = response
          /\ polished_narration' = Strip(response)
          /\ pc' = "write_narration"
          /\ UNCHANGED <<scriptOutcome, failedAt, raised>>
     \/ /\ PolishFailure
        /\ UNCHANGED polishReturn
  /\ UNCHANGED <<analysis_data, scenes, scene_narrations, timing_data, genLog,
                 genReturns, narrationFile, timingFile>>
  /\ UNCHANGED identifyCalls
  /\ UNCHANGED analyzerVars
  /\ UNCHANGED environmentVars
  /\ UNCHANGED appVars
  /\ UNCHANGED contextVars

\* The narration written under a heading line.
WriteNarrationWithHeading ==
  /\ pc = "write_narration"
  /\ narrationFile' = Written(<<"#", "\n">> \o polished_narration)
  /\ pc' = "write_timing"
  /\ UNCHANGED <<scriptOutcome, failedAt, raised>>
  /\ UNCHANGED <<analysis_data, scenes, scene_narrations, timing_data, genLog,
                 genReturns, polishReturn, polished_narration, timingFile>>
  /\ UNCHANGED identifyCalls
  /\ UNCHANGED analyzerVars
  /\ UNCHANGED environmentVars
  /\ UNCHANGED appVars
  /\ UNCHANGED contextVars

\* generate_script: the narration is written to the narration file; open
\* or write may raise, and a write that raises leaves what it wrote.
WriteNarration ==
  /\ pc = "write_narration"
  /\ \/ /\ narrationFile' = Written(polished_narration)
        /\ pc' = "write_timing"
        /\ UNCHANGED <<scriptOutcome, failedAt, raised>>
     \/ /\ narrationFile' \in {NoFile, Partial}
        /\ ScriptRaises("write_narration", 0)
  /\ UNCHANGED <<analysis_data, scenes, scene_narrations, timing_data, genLog,
                 genReturns, polishReturn, polished_narration, timingFile>>
  /\ UNCHANGED identifyCalls
  /\ UNCHANGED analyzerVars
  /\ UNCHANGED environmentVars
  /\ UNCHANGED appVars
  /\ UNCHANGED contextVars

\* save_timing_data and the return of generate_script: the timing record is
\* written and both paths returned; or the write raises, the narration file
\* staying as written.
SaveTimingData ==
  /\ pc = "write_timing"
  /\ \/ /\ timingFile' = Written(timing_data)
        /\ scriptOutcome' = "paths"
        /\ pc' = "done"
        /\ UNCHANGED <<failedAt, raised>>
     \/ /\ timingFile' \in {NoFile, Partial}
        /\ ScriptRaises("write_timing", 0)
  /\ UNCHANGED <<analysis_data, scenes, scene_narrations, timing_data, genLog,
                 genReturns, polishReturn, polished_narration, narrationFile>>
  /\ UNCHANGED identifyCalls
  /\ UNCHANGED analyzerVars
  /\ UNCHANGED environmentVars
  /\ UNCHANGED appVars
  /\ UNCHANGED contextVars

\* -------------------------------------------------------- specification

Next ==
  \/ NewAnalyzer
  \/ ExtractFrames
  \/ AnalyzeFrame
  \/ SaveAnalysis
  \/ NewGenerator
  \/ StartNarration
  \/ RequestSceneNarration
  \/ ReturnSceneNarration
  \/ RequestPolish
  \/ ReturnPolish
  \/ WriteNarration
  \/ SaveTimingData

Spec == Init /\ [][Next]_vars

\* A run on a video of 5 s sampled every 2 s: the state after
\* VideoAnalyzer(video_path, template, frame_interval=2) was constructed,
\* the duration being 10 halves of a second.
InitEndToEnd ==
  /\ pc = "extract"
  /\ duration = 10
  /\ frame_interval = 2
  /\ frame_data = <<>>
  /\ analysis_results = <<>>
  /\ describeLog = <<>>
  /\ describeReturns = <<>>
  /\ analysisFile = NoFile
  /\ analysisOutcome = "none"
  /\ identifyCalls = 0
  /\ analysis_data = <<>>
  /\ scenes = <<>>
  /\ scene_narrations = <<>>
  /\ timing_data = <<>>
  /\ genLog = <<>>
  /\ genReturns = <<>>
  /\ polishReturn = NoContent
  /\ polished_narration = NoContent
  /\ narrationFile = NoFile
  /\ timingFile = NoFile
  /\ scriptOutcome = "none"
  /\ failedAt = NoFailure
  /\ raised = NoException
  /\ IdleEnvironment

NextEndToEnd ==
  \/ ExtractFrames
  \/ AnalyzeFrame
  \/ SaveAnalysis
  \/ NewGenerator
  \/ StartNarration
  \/ RequestSceneNarration
  \/ ReturnSceneNarration
  \/ RequestPolish
  \/ ReturnPolish
  \/ WriteNarration
  \/ SaveTimingData

SpecEndToEnd == InitEndToEnd /\ [][NextEndToEnd]_vars

\* identify_scenes called on its own, any number of times, on a generator
\* whose analysis is loaded: the frames of every analysis analyze_video can
\* have written, the descriptions being any answers of the vision capability.
MaxCalls == 3

LoadedAnalyses ==
  UNION
    { { [i \in 1..Len(times) |->
           [timestamp |-> times[i], narration |-> texts[i]]] :
        texts \in [1..Len(times) -> DescribeTexts \cup {NoContent}] } :
      times \in { FrameTimes(halves, interval) :
                    halves \in 0..MaxHalves, interval \in 1..MaxInterval } }

InitSegmenter ==
  /\ pc = "identify"
  /\ duration = 0
  /\ frame_interval = 1
  /\ frame_data = <<>>
  /\ analysis_results = <<>>
  /\ describeLog = <<>>
  /\ describeReturns = <<>>
  /\ analysisFile = NoFile
  /\ analysisOutcome = "none"
  /\ identifyCalls = 0
  /\ analysis_data \in LoadedAnalyses
  /\ scenes = <<>>
  /\ scene_narrations = <<>>
  /\ timing_data = <<>>
  /\ genLog = <<>>
  /\ genReturns = <<>>
  /\ polishReturn = NoContent
  /\ polished_narration = NoContent
  /\ narrationFile = NoFile
  /\ timingFile = NoFile
  /\ scriptOutcome = "none"
  /\ failedAt = NoFailure
  /\ raised = NoException
  /\ IdleEnvironment

\* identify_scenes with its list of scenes kept from one call to the next.
IdentifyScenesCallAccumulating ==
  /\ pc \in {"identify", "narrate"}
  /\ identifyCalls < MaxCalls
  /\ identifyCalls' = identifyCalls + 1
  /\ scenes' = ScanFrames(analysis_data, scenes, <<>>)
  /\ pc' = "narrate"
  /\ UNCHANGED <<scriptOutcome, failedAt, raised>>
  /\ UNCHANGED <<analysis_data, scene_narrations, timing_data, genLog,
                 genReturns, polishReturn, polished_narration, narrationFile,
                 timingFile>>
  /\ UNCHANGED analyzerVars
  /\ UNCHANGED environmentVars
  /\ UNCHANGED appVars
  /\ UNCHANGED contextVars

\* identify_scenes: its result is handed to the caller, who holds it in
\* scenes; lower() of a description that is None raises. Nothing else of
\* the generator is read or written.
IdentifyScenesCall ==
  /\ pc \in {"identify", "narrate"}
  /\ identifyCalls < MaxCalls
  /\ identifyCalls' = identifyCalls + 1
  /\ IF \E i \in 1..Len(analysis_data) : analysis_data[i].narration = NoContent
     THEN /\ ScriptRaisesWith("identify", 0, AttributeError)
          /\ UNCHANGED scenes
     ELSE /\ scenes' = IdentifyScenes(analysis_data)
          /\ pc' = "narrate"
          /\ UNCHANGED <<scriptOutcome, failedAt, raised>>
  /\ UNCHANGED <<analysis_data, scene_narrations, timing_data, genLog,
                 genReturns, polishReturn, polished_narration, narrationFile,
                 timingFile>>
  /\ UNCHANGED analyzerVars
  /\ UNCHANGED environmentVars
  /\ UNCHANGED appVars
  /\ UNCHANGED contextVars

NextSegmenter == IdentifyScenesCall

SpecSegmenter == InitSegmenter /\ [][NextSegmenter]_vars

\* The template manager after construction, whatever custom_prompts.json
\* held for the four templates (from_dict takes data.get(...) as it is:
\* None, an empty text or a text), and the operations on its templates.
InitTemplates ==
  /\ IdlePipeline
  /\ templates \in
       { [id \in TemplateIds |->
            [BuiltInTemplate(id) EXCEPT
               !.custom_analysis_prompt = custom[id][1],
               !.custom_narration_prompt = custom[id][2]]] :
         custom \in [TemplateIds -> CustomPrompts \X CustomPrompts] }
  /\ templateOp = NoTemplateOp
  /\ clock = 0
  /\ runs = <<>>
  /\ IdleContext
  /\ IdleGui
  /\ IdleStore

\* template.reset_to_defaults()
ResetToDefaults ==
  /\ \E id \in TemplateIds :
       /\ templates' = [templates EXCEPT ![id] = reset_to_defaults(@)]
       /\ templateOp' = [op |-> "reset", id |-> id, value |-> NoContent]
  /\ UNCHANGED <<pc, failedAt, raised, clock, runs>>
  /\ UNCHANGED analyzerVars
  /\ UNCHANGED generatorVars
  /\ UNCHANGED contextVars
  /\ UNCHANGED appVars

\* template.analysis_prompt = value
SetAnalysisPrompt ==
  /\ \E id \in TemplateIds, value \in CustomPrompts :
       /\ templates' =
            [templates EXCEPT ![id].custom_analysis_prompt = value]
       /\ templateOp' = [op |-> "set_analysis", id |-> id, value |-> value]
  /\ UNCHANGED <<pc, failedAt, raised, clock, runs>>
  /\ UNCHANGED analyzerVars
  /\ UNCHANGED generatorVars
  /\ UNCHANGED contextVars
  /\ UNCHANGED appVars

\* template.narration_prompt = value
SetNarrationPrompt ==
  /\ \E id \in TemplateIds, value \in CustomPrompts :
       /\ templates' =
            [templates EXCEPT ![id].custom_narration_prompt = value]
       /\ templateOp' = [op |-> "set_narration", id |-> id, value |-> value]
  /\ UNCHANGED <<pc, failedAt, raised, clock, runs>>
  /\ UNCHANGED analyzerVars
  /\ UNCHANGED generatorVars
  /\ UNCHANGED contextVars
  /\ UNCHANGED appVars

NextTemplates ==
  \/ ResetToDefaults
  \/ SetAnalysisPrompt
  \/ SetNarrationPrompt

SpecTemplates == InitTemplates /\ [][NextTemplates]_vars

\* Runs started from the two tabs while the clock goes on: each tab starts
\* a run only when its previous one is over, and the constructor of the run
\* sets up its output directory.
MaxClock == 3
MaxRuns == 3

\* A run of the kind is under way (processing of its tab is True).
Processing(kind) ==
  \E i \in 1..Len(runs) : runs[i].kind = kind /\ runs[i].active

\* Time passes.
Tick ==
  /\ clock < MaxClock
  /\ clock' = clock + 1
  /\ UNCHANGED <<pc, failedAt, raised, templates, templateOp, runs>>
  /\ UNCHANGED analyzerVars
  /\ UNCHANGED generatorVars
  /\ UNCHANGED contextVars
  /\ UNCHANGED appVars

\* VideoAnalyzer.__init__, from run_analysis: the output directory is
\* that of the video's base name under the chosen parent.
ConstructAnalyzer ==
  /\ Len(runs) < MaxRuns
  /\ ~Processing("analysis")
  /\ \E base_name \in BaseNames, parent_dir \in ParentDirs :
       runs' = Append(runs,
                      [kind |-> "analysis",
                       output_dir |->
                         SetupOutputDirectory(base_name, parent_dir, clock),
                       active |-> TRUE])
  /\ UNCHANGED <<pc, failedAt, raised, templates, templateOp, clock>>
  /\ UNCHANGED analyzerVars
  /\ UNCHANGED generatorVars
  /\ UNCHANGED contextVars
  /\ UNCHANGED appVars

\* NarrativeGenerator.__init__, from run_generation: the output directory
\* is that of "<video_name>_narration" under the chosen parent.
ConstructGenerator ==
  /\ Len(runs) < MaxRuns
  /\ ~Processing("narration")
  /\ \E base_name \in BaseNames, parent_dir \in ParentDirs :
       runs' = Append(runs,
                      [kind |-> "narration",
                       output_dir |->
                         SetupOutputDirectory(NarrationBaseName(base_name),
                                              parent_dir, clock),
                       active |-> TRUE])
  /\ UNCHANGED <<pc, failedAt, raised, templates, templateOp, clock>>
  /\ UNCHANGED analyzerVars
  /\ UNCHANGED generatorVars
  /\ UNCHANGED contextVars
  /\ UNCHANGED appVars

\* A run ends, with its result or with an error: its tab may start another.
FinishRun ==
  /\ \E i \in 1..Len(runs) :
       /\ runs[i].active
       /\ runs' = [runs EXCEPT ![i].active = FALSE]
  /\ UNCHANGED <<pc, failedAt, raised, templates, templateOp, clock>>
  /\ UNCHANGED analyzerVars
  /\ UNCHANGED generatorVars
  /\ UNCHANGED contextVars
  /\ UNCHANGED appVars

NextOutputDirs ==
  \/ Tick
  \/ ConstructAnalyzer
  \/ ConstructGenerator
  \/ FinishRun

SpecOutputDirs == Init /\ [][NextOutputDirs]_vars

\* An analyzer used as run_analysis uses it, in a with statement, on a short
\* video; and one on which analyze_video is called again before the block
\* is left.
MaxContextHalves == 4
MaxRepeatCalls == 1

\* with VideoAnalyzer(...) as analyzer: the constructor, which may raise
\* (the block is then never entered), and __enter__.
EnterAnalyzerContext ==
  /\ pc = "idle"
  /\ context = "none"
  /\ \/ /\ \E halves \in 0..MaxContextHalves, interval \in 1..MaxInterval :
             /\ duration' = halves
             /\ frame_interval' = interval
          /\ frame_data' = <<>>
          /\ framesDirExists' = TRUE
          /\ context' = "entered"
          /\ pc' = "extract"
          /\ UNCHANGED <<analysisOutcome, failedAt, raised, callerGot>>
       \/ /\ AnalysisRaises("construct", 0)
          /\ callerGot' = ErrorOut(StepException("construct"))
          /\ UNCHANGED <<duration, frame_interval, frame_data,
                         framesDirExists, context>>
  /\ UNCHANGED <<analysis_results, describeLog, describeReturns,
                 analysisFile>>
  /\ UNCHANGED generatorVars
  /\ UNCHANGED environmentVars
  /\ UNCHANGED appVars
  /\ UNCHANGED <<frameFiles, unlinkFailed, repeatCalls>>

\* analyzer.analyze_video() once more, after a call that returned: the
\* results list is a new local one, frame_data is the instance's.
AnalyzeVideoAgain ==
  /\ pc = "analysis_done"
  /\ context = "entered"
  /\ repeatCalls < MaxRepeatCalls
  /\ repeatCalls' = repeatCalls + 1
  /\ analysis_results' = <<>>
  /\ analysisOutcome' = "none"
  /\ pc' = "extract"
  /\ UNCHANGED <<duration, frame_interval, frame_data, describeLog,
                 describeReturns, analysisFile, failedAt, raised>>
  /\ UNCHANGED generatorVars
  /\ UNCHANGED environmentVars
  /\ UNCHANGED appVars
  /\ UNCHANGED <<frameFiles, framesDirExists, context, unlinkFailed,
                 callerGot>>

\* What is left of the frames directory after cleanup: the files whose
\* unlink raised; rmdir removes the directory when it is empty and may
\* itself raise, which is logged.
CleanedUp(kept) ==
  /\ frameFiles' = kept
  /\ unlinkFailed' = kept
  /\ framesDirExists' \in (IF kept = {} THEN BOOLEAN ELSE {TRUE})

\* An exit that cleans up only when the block ended without an exception.
ExitContextCleanupOnSuccess ==
  /\ context = "entered"
  /\ pc \in {"analysis_done", "failed"}
  /\ context' = "exited"
  /\ IF pc = "failed"
     THEN /\ callerGot' = ErrorOut(raised)
          /\ UNCHANGED <<frameFiles, unlinkFailed, framesDirExists>>
     ELSE /\ callerGot' = ResultOut
          /\ \E kept \in SUBSET frameFiles : CleanedUp(kept)
  /\ UNCHANGED <<pc, failedAt, raised, repeatCalls>>
  /\ UNCHANGED analyzerVars
  /\ UNCHANGED generatorVars
  /\ UNCHANGED environmentVars
  /\ UNCHANGED appVars

\* The end of the with block: __exit__ logs the exception, if any, and calls
\* cleanup, which unlinks every *.jpg of frames_dir (a failing unlink is
\* logged and skipped) and removes the directory; __exit__ returns None, so
\* the exception goes on to the caller.
ExitContext ==
  /\ context = "entered"
  /\ pc \in {"analysis_done", "failed"}
  /\ context' = "exited"
  /\ callerGot' = IF pc = "failed" THEN ErrorOut(raised) ELSE ResultOut
  /\ \E kept \in SUBSET frameFiles : CleanedUp(kept)
  /\ UNCHANGED <<pc, failedAt, raised, repeatCalls>>
  /\ UNCHANGED analyzerVars
  /\ UNCHANGED generatorVars
  /\ UNCHANGED environmentVars
  /\ UNCHANGED appVars

\* One analyze_video call in the with block, as in run_analysis.
NextAnalyzerContext ==
  \/ EnterAnalyzerContext
  \/ ExtractFrames
  \/ AnalyzeFrame
  \/ SaveAnalysis
  \/ ExitContext

SpecAnalyzerContext == Init /\ [][NextAnalyzerContext]_vars

\* The same with analyze_video called again on the instance.
NextRepeatedCalls ==
  \/ EnterAnalyzerContext
  \/ ExtractFrames
  \/ AnalyzeFrame
  \/ SaveAnalysis
  \/ AnalyzeVideoAgain
  \/ ExitContext

SpecRepeatedCalls == Init /\ [][NextRepeatedCalls]_vars

\* ------------------------------------------------------------ main window

\* The two tabs of the main window with their worker threads: a start
\* request runs on the UI thread, the worker constructs the analyzer or the
\* generator, sends its requests with the instruction it reads from the
\* template at each of them, and gives its handler to after(0, ...); the UI
\* thread runs the handlers in order. The prompt editor can be opened on a
\* template while a worker runs.

\* The most requests one run sends: its frames, or its scenes.
MaxRequests == 2

\* The system message of a request: self.template.analysis_prompt in
\* analyze_frame, self.template.narration_prompt in create_scene_narration.
Instruction(tab, template) ==
  IF tab = "analysis" THEN analysis_prompt(template)
                      ELSE narration_prompt(template)

\* threading.Thread(target=self.run_analysis, args=(..., template, ...)):
\* the thread holds the manager's template object; atStart notes the
\* instruction of that template when the thread was started.
NewWorker(tab, id) ==
  [template |-> id,
   stage |-> "started",
   atStart |-> Instruction(tab, templates[id]),
   used |-> <<>>]

\* The main window with the manager as load_custom_prompts left it,
\* whatever custom_prompts.json held for the first template.
InitMainWindow ==
  /\ IdlePipeline
  /\ templates \in
       { [id \in TemplateIds |->
            IF id = "room-tour"
            THEN [BuiltInTemplate(id) EXCEPT
                    !.custom_analysis_prompt = custom[1],
                    !.custom_narration_prompt = custom[2]]
            ELSE BuiltInTemplate(id)] :
         custom \in CustomPrompts \X CustomPrompts }
  /\ templateOp = NoTemplateOp
  /\ clock = 0
  /\ runs = <<>>
  /\ IdleContext
  /\ IdleGui
  /\ IdleStore

\* A start request that does not look at processing.
StartRequestUnguarded(tab) ==
  /\ \E id \in TemplateIds :
       workers' = [workers EXCEPT ![tab] = Append(@, NewWorker(tab, id))]
  /\ processing' = [processing EXCEPT ![tab] = TRUE]
  /\ startButton' = [startButton EXCEPT ![tab] = "disabled"]
  /\ is_active' = TRUE
  /\ handlersRun' = [handlersRun EXCEPT ![tab] = <<>>]
  /\ UNCHANGED <<posted, startIgnored>>
  /\ UNCHANGED <<pc, failedAt, raised>>
  /\ UNCHANGED analyzerVars
  /\ UNCHANGED generatorVars
  /\ UNCHANGED environmentVars
  /\ UNCHANGED contextVars
  /\ UNCHANGED <<customPromptsFile, dialog>>

\* start_analysis, start_generation with valid inputs (with invalid ones
\* validate_inputs shows an error and the handler returns): nothing but
\* the return when the tab is processing; else processing is set, the
\* button disabled, the results cleared, the tracker shown and the thread
\* started on the selected template.
StartRequest(tab) ==
  /\ IF processing[tab]
     THEN /\ startIgnored' = [startIgnored EXCEPT ![tab] = TRUE]
          /\ UNCHANGED <<processing, startButton, workers, is_active,
                         handlersRun>>
     ELSE /\ \E id \in TemplateIds :
               workers' =
                 [workers EXCEPT ![tab] = Append(@, NewWorker(tab, id))]
          /\ processing' = [processing EXCEPT ![tab] = TRUE]
          /\ startButton' = [startButton EXCEPT ![tab] = "disabled"]
          /\ is_active' = TRUE
          /\ handlersRun' = [handlersRun EXCEPT ![tab] = <<>>]
          /\ UNCHANGED startIgnored
  /\ UNCHANGED posted
  /\ UNCHANGED <<pc, failedAt, raised>>
  /\ UNCHANGED analyzerVars
  /\ UNCHANGED generatorVars
  /\ UNCHANGED environmentVars
  /\ UNCHANGED contextVars
  /\ UNCHANGED <<customPromptsFile, dialog>>

\* self.after(0, handler, ...), the last statement of the thread.
PostAndEnd(tab, i, handler, error) ==
  /\ posted' = Append(posted,
                      [tab |-> tab, handler |-> handler, error |-> error])
  /\ workers' = [workers EXCEPT
                   ![tab] = SubSeq(@, 1, i - 1) \o SubSeq(@, i + 1, Len(@))]

\* A worker whose thread dies of the constructor's exception.
WorkerConstructUncaught(tab) ==
  /\ \E i \in 1..Len(workers[tab]) :
       /\ workers[tab][i].stage = "started"
       /\ \/ /\ workers' = [workers EXCEPT ![tab][i].stage = "entered"]
             /\ UNCHANGED posted
          \/ /\ workers' =
                  [workers EXCEPT
                     ![tab] = SubSeq(@, 1, i - 1) \o SubSeq(@, i + 1, Len(@))]
             /\ UNCHANGED posted
  /\ UNCHANGED <<processing, startButton, is_active, handlersRun,
                 startIgnored>>
  /\ UNCHANGED <<pc, failedAt, raised>>
  /\ UNCHANGED analyzerVars
  /\ UNCHANGED generatorVars
  /\ UNCHANGED environmentVars
  /\ UNCHANGED contextVars
  /\ UNCHANGED <<customPromptsFile, dialog>>

\* run_analysis, run_generation: the constructor in the with statement; an
\* exception of it is caught and the error handler posted.
WorkerConstruct(tab) ==
  /\ \E i \in 1..Len(workers[tab]) :
       /\ workers[tab][i].stage = "started"
       /\ \/ /\ workers' = [workers EXCEPT ![tab][i].stage = "entered"]
             /\ UNCHANGED posted
          \/ PostAndEnd(tab, i, "error", "construct")
  /\ UNCHANGED <<processing, startButton, is_active, handlersRun,
                 startIgnored>>
  /\ UNCHANGED <<pc, failedAt, raised>>
  /\ UNCHANGED analyzerVars
  /\ UNCHANGED generatorVars
  /\ UNCHANGED environmentVars
  /\ UNCHANGED contextVars
  /\ UNCHANGED <<customPromptsFile, dialog>>

\* One request of the run (a frame of analyze_video, a scene of
\* create_complete_narration): the instruction is read from the template
\* when the request is built; a failing request ends the run.
WorkerRequest(tab) ==
  /\ \E i \in 1..Len(workers[tab]) :
       LET worker == workers[tab][i]
       IN /\ worker.stage = "entered"
          /\ Len(worker.used) < MaxRequests
          /\ \/ /\ workers' =
                     [workers EXCEPT
                        ![tab][i].used =
                          Append(@, Instruction(tab,
                                                templates[worker.template]))]
                /\ UNCHANGED posted
             \/ PostAndEnd(tab, i, "error", "request")
  /\ UNCHANGED <<processing, startButton, is_active, handlersRun,
                 startIgnored>>
  /\ UNCHANGED <<pc, failedAt, raised>>
  /\ UNCHANGED analyzerVars
  /\ UNCHANGED generatorVars
  /\ UNCHANGED environmentVars
  /\ UNCHANGED contextVars
  /\ UNCHANGED <<customPromptsFile, dialog>>

\* The end of the run: the artifacts are saved and the completion handler
\* posted, or saving raises and the error handler is posted.
WorkerFinish(tab) ==
  /\ \E i \in 1..Len(workers[tab]) :
       /\ workers[tab][i].stage = "entered"
       /\ \/ PostAndEnd(tab, i, "complete", "none")
          \/ PostAndEnd(tab, i, "error", "persist")
  /\ UNCHANGED <<processing, startButton, is_active, handlersRun,
                 startIgnored>>
  /\ UNCHANGED <<pc, failedAt, raised>>
  /\ UNCHANGED analyzerVars
  /\ UNCHANGED generatorVars
  /\ UNCHANGED environmentVars
  /\ UNCHANGED contextVars
  /\ UNCHANGED <<customPromptsFile, dialog>>

\* A step of a worker thread of the tab.
WorkerAdvance(tab) ==
  \/ WorkerConstruct(tab)
  \/ WorkerRequest(tab)
  \/ WorkerFinish(tab)

\* analysis_complete, analysis_error, generation_complete,
\* generation_error, run by the event loop: processing is reset, the button
\* enabled and the shared tracker hidden.
HandlePosted ==
  /\ posted # <<>>
  /\ LET callback == Head(posted)
         tab == callback.tab
     IN /\ processing' = [processing EXCEPT ![tab] = FALSE]
        /\ startButton' = [startButton EXCEPT ![tab] = "normal"]
        /\ handlersRun' =
             [handlersRun EXCEPT
                ![tab] = Append(@, [handler |-> callback.handler,
                                    error |-> callback.error])]
        /\ startIgnored' = [startIgnored EXCEPT ![tab] = FALSE]
  /\ is_active' = FALSE
  /\ posted' = Tail(posted)
  /\ UNCHANGED workers
  /\ UNCHANGED <<pc, failedAt, raised>>
  /\ UNCHANGED analyzerVars
  /\ UNCHANGED generatorVars
  /\ UNCHANGED environmentVars
  /\ UNCHANGED contextVars
  /\ UNCHANGED <<customPromptsFile, dialog>>

\* edit_template, then Reset to Defaults confirmed in the dialog:
\* reset_prompts calls template.reset_to_defaults() at once.
ResetInEditor ==
  /\ \E id \in TemplateIds :
       templates' = [templates EXCEPT ![id] = reset_to_defaults(@)]
  /\ UNCHANGED <<templateOp, clock, runs>>
  /\ UNCHANGED guiVars
  /\ UNCHANGED <<pc, failedAt, raised>>
  /\ UNCHANGED analyzerVars
  /\ UNCHANGED generatorVars
  /\ UNCHANGED contextVars
  /\ UNCHANGED <<customPromptsFile, dialog>>

NextMainWindow ==
  \/ \E tab \in Tabs : StartRequest(tab)
  \/ \E tab \in Tabs : WorkerConstruct(tab)
  \/ \E tab \in Tabs : WorkerRequest(tab)
  \/ \E tab \in Tabs : WorkerFinish(tab)
  \/ HandlePosted
  \/ ResetInEditor

\* Every worker thread goes on to its end and the event loop keeps running
\* the callbacks it was given.
SpecMainWindow ==
  /\ InitMainWindow
  /\ [][NextMainWindow]_vars
  /\ \A tab \in Tabs : WF_vars(WorkerAdvance(tab))
  /\ WF_vars(HandlePosted)

\* ----------------------------------------------------------- prompt store

\* The manager's templates written to custom_prompts.json and read back by
\* the next TemplateManager.

\* The order of self.templates, as _initialize_defaults fills it.
TemplateOrder ==
  <<"room-tour", "outdoor-scene", "event-coverage", "product-showcase">>

\* Template.to_dict, under the key save_custom_prompts gives it
to_dict(template) ==
  [key |-> template.id,
   kind |-> "dict",
   custom_analysis_prompt |-> template.custom_analysis_prompt,
   custom_narration_prompt |-> template.custom_narration_prompt]

\* Template.from_dict: data.get(...) of the two custom prompts
from_dict(data, default_template) ==
  [default_template EXCEPT
     !.custom_analysis_prompt = data.custom_analysis_prompt,
     !.custom_narration_prompt = data.custom_narration_prompt]

\* custom_data of save_custom_prompts: the customized templates only
CustomData(manager) ==
  LET ids == SelectSeq(TemplateOrder, LAMBDA id : is_customized(manager[id]))
  IN [i \in 1..Len(ids) |-> to_dict(manager[ids[i]])]

\* save_custom_prompts when nothing raises: the file is written only if
\* custom_data is not empty
save_custom_prompts(manager, file) ==
  IF CustomData(manager) # <<>> THEN PromptsFile(CustomData(manager))
                                ELSE file

\* The loop of load_custom_prompts: an entry of an unknown id is skipped;
\* from_dict on data that is no dict raises, which ends the loop with the
\* templates replaced so far left as they are.
RECURSIVE LoadEntries(_, _)
LoadEntries(entries, manager) ==
  IF entries = <<>> THEN manager
  ELSE LET template_id == Head(entries).key
           data == Head(entries)
       IN IF template_id \notin DOMAIN manager
          THEN LoadEntries(Tail(entries), manager)
          ELSE IF data.kind # "dict"
          THEN manager
          ELSE LoadEntries(Tail(entries),
                           [manager EXCEPT
                              ![template_id] = from_dict(data, @)])

\* load_custom_prompts: nothing without the file; an exception of open or
\* of json.load is logged before any template is replaced
load_custom_prompts(file, manager) ==
  IF file.state = "json" THEN LoadEntries(file.entries, manager)
                         ELSE manager

\* TemplateManager(): _initialize_defaults, then load_custom_prompts
TemplateManager(file) ==
  load_custom_prompts(file, [id \in TemplateIds |-> BuiltInTemplate(id)])

\* The most entries of a custom_prompts.json found at the start.
MaxEntries == 2

\* Entries a custom_prompts.json may hold: overrides of two templates, data
\* that is no dict, an id the manager does not have.
StoredEntries ==
  { [key |-> "room-tour", kind |-> "dict",
     custom_analysis_prompt |-> <<"p">>,
     custom_narration_prompt |-> NoContent],
    [key |-> "outdoor-scene", kind |-> "dict",
     custom_analysis_prompt |-> NoContent,
     custom_narration_prompt |-> <<"p">>],
    [key |-> "outdoor-scene", kind |-> "list",
     custom_analysis_prompt |-> NoContent,
     custom_narration_prompt |-> NoContent],
    [key |-> "my-template", kind |-> "dict",
     custom_analysis_prompt |-> <<"p">>,
     custom_narration_prompt |-> <<"p">>] }

\* The files found at the start: a JSON object has each key once.
StoredFiles ==
  {NoPromptsFile, UnreadablePromptsFile, MalformedPromptsFile} \cup
  { PromptsFile(entries) :
      entries \in { e \in UNION { [1..n -> StoredEntries] :
                                    n \in 0..MaxEntries } :
                      \A i, j \in 1..Len(e) :
                        i # j => e[i].key # e[j].key } }

LoadOp == [op |-> "load", id |-> "none", value |-> NoContent]
SaveOp == [op |-> "save", id |-> "none", value |-> NoContent]
SaveRaisedOp == [op |-> "save_raised", id |-> "none", value |-> NoContent]

\* The application started on a custom_prompts.json it finds.
InitPromptStore ==
  /\ IdlePipeline
  /\ customPromptsFile \in StoredFiles
  /\ templates = TemplateManager(customPromptsFile)
  /\ templateOp = LoadOp
  /\ clock = 0
  /\ runs = <<>>
  /\ IdleContext
  /\ IdleGui
  /\ dialog = NoDialog

\* manager.save_custom_prompts(): the file is written, or open raises and
\* the exception is logged and raised again.
SaveCustomPrompts ==
  /\ \/ /\ customPromptsFile' =
             save_custom_prompts(templates, customPromptsFile)
        /\ templateOp' = SaveOp
     \/ /\ CustomData(templates) # <<>>
        /\ templateOp' = SaveRaisedOp
        /\ UNCHANGED customPromptsFile
  /\ UNCHANGED <<templates, clock, runs, dialog>>
  /\ UNCHANGED guiVars
  /\ UNCHANGED <<pc, failedAt, raised>>
  /\ UNCHANGED analyzerVars
  /\ UNCHANGED generatorVars
  /\ UNCHANGED contextVars

\* The application started again: a new TemplateManager reads the file.
NewTemplateManager ==
  /\ templates' = TemplateManager(customPromptsFile)
  /\ templateOp' = LoadOp
  /\ UNCHANGED <<customPromptsFile, clock, runs, dialog>>
  /\ UNCHANGED guiVars
  /\ UNCHANGED <<pc, failedAt, raised>>
  /\ UNCHANGED analyzerVars
  /\ UNCHANGED generatorVars
  /\ UNCHANGED contextVars

NextPromptStore ==
  \/ ResetToDefaults
  \/ SetAnalysisPrompt
  \/ SaveCustomPrompts
  \/ NewTemplateManager

SpecPromptStore == InitPromptStore /\ [][NextPromptStore]_vars

\* ---------------------------------------------------------- prompt editor

\* The prompt editor opened on a template of the manager: the text boxes
\* are filled with the template's prompts, the user types, resets, saves or
\* cancels.

\* What the user leaves in a text box: nothing, blanks, a text with a
\* trailing blank.
TypedTexts == {<<>>, <<" ">>, <<"q", " ">>}

\* PromptEditorDialog(parent, template): create_widgets inserts the
\* template's prompts in the text boxes; opened_on notes the template as
\* the dialog found it.
OpenEditor ==
  /\ ~dialog.open
  /\ \E id \in TemplateIds :
       dialog' = [open |-> TRUE,
                  id |-> id,
                  analysis_text |-> analysis_prompt(templates[id]),
                  narration_text |-> narration_prompt(templates[id]),
                  last |-> "none",
                  opened_on |-> templates[id]]
  /\ UNCHANGED <<customPromptsFile>>
  /\ UNCHANGED guiVars
  /\ UNCHANGED <<pc, failedAt, raised>>
  /\ UNCHANGED analyzerVars
  /\ UNCHANGED generatorVars
  /\ UNCHANGED environmentVars
  /\ UNCHANGED contextVars

\* The user replaces the content of the two text boxes.
TypePrompts ==
  /\ dialog.open
  /\ \E analysis \in TypedTexts, narration \in TypedTexts :
       dialog' = [dialog EXCEPT !.analysis_text = analysis,
                                !.narration_text = narration,
                                !.last = "typed"]
  /\ UNCHANGED <<customPromptsFile>>
  /\ UNCHANGED guiVars
  /\ UNCHANGED <<pc, failedAt, raised>>
  /\ UNCHANGED analyzerVars
  /\ UNCHANGED generatorVars
  /\ UNCHANGED environmentVars
  /\ UNCHANGED contextVars

\* reset_prompts, the question answered with yes (with no nothing is
\* done): the template is reset at once and the text boxes filled again.
ResetPrompts ==
  /\ dialog.open
  /\ LET template == reset_to_defaults(templates[dialog.id])
     IN /\ templates' = [templates EXCEPT ![dialog.id] = template]
        /\ dialog' = [dialog EXCEPT
                        !.analysis_text = analysis_prompt(template),
                        !.narration_text = narration_prompt(template),
                        !.last = "reset"]
  /\ UNCHANGED <<templateOp, clock, runs, customPromptsFile>>
  /\ UNCHANGED guiVars
  /\ UNCHANGED <<pc, failedAt, raised>>
  /\ UNCHANGED analyzerVars
  /\ UNCHANGED generatorVars
  /\ UNCHANGED contextVars

\* save_changes: both texts are stripped; if one is empty an error is
\* shown and the dialog stays; else both prompts of the template are set,
\* result is True and the dialog is destroyed.
SaveChanges ==
  /\ dialog.open
  /\ LET analysis == Strip(dialog.analysis_text)
         narration == Strip(dialog.narration_text)
     IN IF analysis = <<>> \/ narration = <<>>
        THEN /\ dialog' = [dialog EXCEPT !.last = "save_refused"]
             /\ UNCHANGED templates
        ELSE /\ templates' =
                  [templates EXCEPT
                     ![dialog.id].custom_analysis_prompt = analysis,
                     ![dialog.id].custom_narration_prompt = narration]
             /\ dialog' = [dialog EXCEPT !.open = FALSE, !.last = "save"]
  /\ UNCHANGED <<templateOp, clock, runs, customPromptsFile>>
  /\ UNCHANGED guiVars
  /\ UNCHANGED <<pc, failedAt, raised>>
  /\ UNCHANGED analyzerVars
  /\ UNCHANGED generatorVars
  /\ UNCHANGED contextVars

\* Cancel: self.dialog.destroy, result stays None.
CancelEditor ==
  /\ dialog.open
  /\ dialog' = [dialog EXCEPT !.open = FALSE, !.last = "cancel"]
  /\ UNCHANGED <<customPromptsFile>>
  /\ UNCHANGED guiVars
  /\ UNCHANGED <<pc, failedAt, raised>>
  /\ UNCHANGED analyzerVars
  /\ UNCHANGED generatorVars
  /\ UNCHANGED environmentVars
  /\ UNCHANGED contextVars

NextPromptEditor ==
  \/ OpenEditor
  \/ TypePrompts
  \/ ResetPrompts
  \/ SaveChanges
  \/ CancelEditor

SpecPromptEditor == InitMainWindow /\ [][NextPromptEditor]_vars

\* ------------------------------------------------------------ properties

\* identify_scenes has returned: scenes holds its result.
Segmented ==
  \/ pc \in {"narrate", "narrate_wait", "polish_wait", "write_narration",
             "write_timing", "done"}
  \/ /\ pc = "failed"
     /\ failedAt.step \in {"narrate", "polish", "write_narration",
                           "write_timing"}

\* extract_frames has returned True: frame_data holds the sampled frames.
Sampled ==
  /\ pc \notin {"idle", "extract"}
  /\ failedAt.step \notin {"construct", "extract"}

RECURSIVE Flatten(_)
Flatten(ss) == IF ss = <<>> THEN <<>> ELSE Head(ss) \o Flatten(Tail(ss))

\* The position, in the input, of the first description of scene k.
RECURSIVE SceneStart(_)
SceneStart(k) == IF k = 1 THEN 1 ELSE SceneStart(k - 1) + Len(scenes[k - 1])

\* The lower-cased text holds one of the eight phrases at some offset.
HasPhrase(text) ==
  \E term \in TransitionTerms :
    \E k \in 0..(Len(text) - Len(term)) :
      \A j \in 1..Len(term) : LowerChar(text[k + j]) = term[j]

\* The positions from the second on whose description holds a phrase.
TransitionPositions ==
  {i \in 2..Len(analysis_data) : HasPhrase(analysis_data[i].narration)}

\* C1 (Scene Segmenter partition): the scenes identify_scenes returned,
\* concatenated in order, are exactly the frames of the loaded analysis,
\* and no scene is empty; so an empty analysis gives no scene.
C1_ScenesPartitionInput ==
  Segmented =>
    /\ Flatten(scenes) = analysis_data
    /\ \A k \in 1..Len(scenes) : scenes[k] # <<>>
    /\ (analysis_data = <<>> => scenes = <<>>)

\* Three descriptions were segmented into two scenes.
C1_Witness ==
  /\ Segmented
  /\ Len(analysis_data) = 3
  /\ Len(scenes) = 2

\* An empty analysis was segmented.
C1_WitnessEmpty ==
  /\ Segmented
  /\ analysis_data = <<>>

\* C2 (Scene Segmenter split rule): a scene starts at position i >= 2 of the
\* input exactly when the lower-cased description i holds one of the eight
\* phrases; a non-empty input gives 1 + (number of such positions) scenes;
\* an input without any phrase gives the one scene of all descriptions; every
\* scene after the first starts with the transition description itself.
C2_SplitRule ==
  Segmented =>
    /\ \A i \in 2..Len(analysis_data) :
         (\E k \in 1..Len(scenes) : SceneStart(k) = i)
           <=> i \in TransitionPositions
    /\ (analysis_data # <<>> =>
          Len(scenes) = 1 + Cardinality(TransitionPositions))
    /\ ((/\ analysis_data # <<>>
         /\ \A i \in 1..Len(analysis_data) :
              ~HasPhrase(analysis_data[i].narration))
          => scenes = <<analysis_data>>)
    /\ \A k \in 2..Len(scenes) :
         /\ scenes[k] # <<>>
         /\ scenes[k][1] = analysis_data[SceneStart(k)]
         /\ HasPhrase(scenes[k][1].narration)

\* A capitalised phrase at position 2 split three descriptions at 2 only.
C2_Witness ==
  /\ Segmented
  /\ Len(analysis_data) = 3
  /\ analysis_data[2].narration = <<"N", "o", "w", " ", "i", "n">>
  /\ analysis_data[3].narration = <<"e", "n", "t", "e", "r">>
  /\ Len(scenes) = 2
  /\ Len(scenes[2]) = 2

\* C3 (Scene Segmenter first-item guard): a phrase in the first description
\* splits nothing: the first description is the first element of the first
\* scene, and a one-description input gives the one scene of that
\* description, also when it holds a phrase.
C3_FirstItemGuard ==
  (Segmented /\ analysis_data # <<>>) =>
    /\ scenes # <<>>
    /\ scenes[1] # <<>>
    /\ scenes[1][1] = analysis_data[1]
    /\ (Len(analysis_data) = 1 => scenes = << <<analysis_data[1]>> >>)

\* A single description that holds a phrase was segmented.
C3_Witness ==
  /\ Segmented
  /\ Len(analysis_data) = 1
  /\ HasPhrase(analysis_data[1].narration)
  /\ Len(scenes) = 1

\* The frames extract_frames stored are at 0, I, 2I, ..., each with its
\* 1-based position as index and the number of frames as total.
FramesWellFormed ==
  \A i \in 1..Len(frame_data) :
    /\ frame_data[i].timestamp = (i - 1) * frame_interval
    /\ frame_data[i].index = i
    /\ frame_data[i].total_frames = Len(frame_data)

\* C4 as stated (Frame Sampler count): extract_frames produces exactly
\* floor(D / I) frames (D = duration / 2 seconds), at 0, I, ..., each with
\* its 1-based index and the total.
C4_FloorOfQuotient ==
  Sampled =>
    /\ Len(frame_data) = duration \div (2 * frame_interval)
    /\ FramesWellFormed

\* C4 as amended (Frame Sampler count): extract_frames produces exactly
\* ceil(floor(D) / I) frames, one at every multiple of I below floor(D):
\* 0, I, 2I, ..., each with its 1-based index and the total.
C4_CeilOfTruncated ==
  Sampled =>
    /\ Len(frame_data)
         = ((duration \div 2) + frame_interval - 1) \div frame_interval
    /\ FramesWellFormed
    /\ \A t \in 0..MaxHalves :
         (t % frame_interval = 0 /\ t < duration \div 2)
           => \E i \in 1..Len(frame_data) : frame_data[i].timestamp = t

\* A 3.5 s video was sampled every 2 s: 2 frames, where floor(3.5 / 2) is 1.
C4_Witness ==
  /\ Sampled
  /\ duration = 7
  /\ frame_interval = 2
  /\ Len(frame_data) = 2

\* The timestamps of the sampled frames, in frame order.
FrameTimestamps == [i \in 1..Len(frame_data) |-> frame_data[i].timestamp]

\* C5 (describe order and one-to-one): the vision capability is called on
\* frames in strictly increasing timestamp order, and the analysis file,
\* once written, holds one description per sampled frame, in frame order,
\* each with its frame's timestamp; every sampled frame was described once.
C5_DescribeOrderOneToOne ==
  /\ \A i, j \in 1..Len(describeLog) :
       i < j => describeLog[i] < describeLog[j]
  /\ analysisFile.state = "written" =>
       /\ Len(analysisFile.content) = Len(frame_data)
       /\ \A i \in 1..Len(frame_data) :
            analysisFile.content[i].timestamp = frame_data[i].timestamp
       /\ describeLog = FrameTimestamps

\* The analysis of three frames was written.
C5_Witness ==
  /\ analysisFile.state = "written"
  /\ Len(analysisFile.content) = 3
  /\ Len(describeLog) = 3

\* The scene requests among the requests sent so far.
SceneRequests == {i \in 1..Len(genLog) : genLog[i].kind = "scene"}

\* The polishing requests among the requests sent so far.
PolishRequests == {i \in 1..Len(genLog) : genLog[i].kind = "polish"}

\* Where, in the draft, the narration of scene k starts (0-based), each
\* narration before it being followed by a two-character separator.
RECURSIVE DraftOffset(_)
DraftOffset(k) ==
  IF k = 1 THEN 0
  ELSE DraftOffset(k - 1) + Len(scene_narrations[k - 1]) + 2

\* draft is the scene narrations in order, a blank line between neighbours
\* and nothing else.
IsBlankLineJoin(draft) ==
  LET m == Len(scene_narrations)
  IN /\ Len(draft) = IF m = 0 THEN 0 ELSE DraftOffset(m + 1) - 2
     /\ \A k \in 1..m :
          \A j \in 1..Len(scene_narrations[k]) :
            draft[DraftOffset(k) + j] = scene_narrations[k][j]
     /\ \A k \in 1..(m - 1) :
          /\ draft[DraftOffset(k + 1) - 1] = "\n"
          /\ draft[DraftOffset(k + 1)] = "\n"

\* C6 (narration order): the i-th request sent is for scene i of the
\* segmenter's result and carries that scene's descriptions; a scene is
\* requested only when every scene before it has been answered; the
\* polishing request is sent once every scene has been narrated, after all
\* scene requests, and carries the scene narrations joined in scene order
\* with a blank line between them.
C6_NarrationOrder ==
  /\ \A i \in SceneRequests :
       /\ genLog[i].item = i
       /\ i <= Len(scenes)
       /\ genLog[i].content = Join(LineSep, Descriptions(scenes[i]))
  /\ Cardinality(SceneRequests) <= Len(scene_narrations) + 1
  /\ (Cardinality(SceneRequests) = Len(scene_narrations) + 1
        => pc = "narrate_wait"
           \/ (pc = "failed" /\ failedAt.step = "narrate"))
  /\ \A p \in PolishRequests :
       /\ p = Len(genLog)
       /\ p = Len(scenes) + 1
       /\ Len(scene_narrations) = Len(scenes)
       /\ IsBlankLineJoin(genLog[p].content)

\* The draft of two scenes, one narration trimmed, went to polishing.
C6_Witness ==
  /\ pc = "polish_wait"
  /\ Len(scenes) = 2
  /\ genReturns = << <<" ", "B", "\n">>, <<"A">> >>
  /\ genLog[3].content = <<"B", "\n", "\n", "A">>

\* The phase of the pipeline's state machine: 0 Idle, 1 Sampling,
\* 2 Describing (with the write of the analysis it ends in), 3 Segmenting,
\* 4 Narrating, 5 Polishing (with the write of the two artifacts it ends
\* in), 6 Done, 7 Failed.
Phase(p) ==
  CASE p = "idle" -> 0
    [] p = "extract" -> 1
    [] p \in {"analyze", "analysis_done"} -> 2
    [] p = "identify" -> 3
    [] p \in {"narrate", "narrate_wait"} -> 4
    [] p \in {"polish_wait", "write_narration", "write_timing"} -> 5
    [] p = "done" -> 6
    [] p = "failed" -> 7

\* A step of the pipeline that the state machine allows.
PhaseStep ==
  /\ pc \notin {"failed", "done"}
  /\ (failedAt' # failedAt) <=> (pc' = "failed")
  /\ pc' # "failed" =>
       /\ Phase(pc') \in {Phase(pc), Phase(pc) + 1}
       /\ failedAt' = NoFailure
       /\ (Phase(pc) = 2 /\ Phase(pc') = 2) =>
            \/ /\ pc' = "analyze"
               /\ Len(analysis_results') = Len(analysis_results) + 1
               /\ Len(analysis_results') <= Len(frame_data)
            \/ /\ pc' = "analysis_done"
               /\ Len(analysis_results) = Len(frame_data)
       /\ (Phase(pc) = 4 /\ Phase(pc') = 4) =>
            \/ /\ pc' = "narrate_wait"
               /\ Len(scene_narrations) < Len(scenes)
               /\ scene_narrations' = scene_narrations
            \/ /\ pc' = "narrate"
               /\ Len(scene_narrations') = Len(scene_narrations) + 1
       /\ (Phase(pc) = 4 /\ Phase(pc') = 5) =>
            Len(scene_narrations) = Len(scenes)

\* C7 (pipeline state machine): every step stays in its phase or moves to
\* the next one, in the order Idle, Sampling, Describing (frame by frame),
\* Segmenting, Narrating (scene by scene, all of them), Polishing, Done, or
\* moves to Failed, which it does exactly when a step raises; nothing
\* follows Failed or Done, so a failed run never reaches Done.
C7_PhaseOrder == [][PhaseStep]_vars

\* The run failed in the polishing call, after two scenes were narrated.
C7_Witness ==
  /\ pc = "failed"
  /\ failedAt.step = "polish"
  /\ Len(scene_narrations) = 2
  /\ Len(describeLog) = 3

\* C8 (fail-fast analysis): when sampling raises, no frame is described;
\* when the describe step of frame k raises, no frame after k was or is
\* described; in both cases analyze_video raises to its caller, no analysis
\* file is written, and no description reaches a narration run.
C8_FailFastAnalysis ==
  failedAt.step \in {"extract", "describe"} =>
    /\ pc = "failed"
    /\ analysisOutcome = "raised"
    /\ analysisFile = NoFile
    /\ analysis_data = <<>>
    /\ failedAt.step = "extract" => describeLog = <<>>
    /\ failedAt.step = "describe" =>
         /\ failedAt.item <= Len(frame_data)
         /\ Len(analysis_results) = failedAt.item - 1
         /\ \A i \in 1..Len(describeLog) :
              describeLog[i] <= frame_data[failedAt.item].timestamp

\* The describe call of the second of three frames raised.
C8_Witness ==
  /\ failedAt = [step |-> "describe", item |-> 2]
  /\ Len(frame_data) = 3
  /\ Len(describeLog) = 2

\* C9 (polish failure is total): when the polishing call raises,
\* generate_script raises to its caller, neither the narration file nor the
\* timing file is written, and no narration text, the draft included, is
\* kept as the result.
C9_PolishFailureTotal ==
  failedAt.step = "polish" =>
    /\ pc = "failed"
    /\ scriptOutcome = "raised"
    /\ narrationFile = NoFile
    /\ timingFile = NoFile
    /\ polished_narration = NoContent

\* The polishing call raised on the draft of one narrated scene.
C9_Witness ==
  /\ failedAt.step = "polish"
  /\ Len(scene_narrations) = 1
  /\ Len(genLog) = 2
  /\ genLog[2].kind = "polish"

\* C10 (all-or-error outcome): a run that has ended has written both the
\* narration file and the timing file and returned their paths, or has
\* raised and written neither; never exactly one of the two.
C10_AllOrError ==
  pc \in {"done", "failed"} =>
    \/ /\ scriptOutcome = "paths"
       /\ narrationFile.state = "written"
       /\ timingFile.state = "written"
    \/ /\ scriptOutcome # "paths"
       /\ narrationFile.state # "written"
       /\ timingFile.state # "written"

\* The exception names the frame, by its index, its timestamp or its file.
NamesFrame(exception, frame) ==
  \/ exception.names = "frame_index" /\ exception.item = frame.index
  \/ /\ exception.names \in {"frame_timestamp", "frame_path"}
     /\ exception.item = frame.timestamp

\* C11 as stated (tagged errors): when the vision call for frame k raises,
\* the exception that reaches the caller names frame k; when the call for
\* scene j raises, it names scene j; when the polishing call raises, it
\* names the final-polish step.
C11_TaggedErrors ==
  /\ (failedAt.step = "describe" /\ Len(describeLog) = failedAt.item)
       => NamesFrame(raised, frame_data[failedAt.item])
  /\ (failedAt.step = "narrate" /\ Cardinality(SceneRequests) = failedAt.item)
       => (raised.names = "scene" /\ raised.item = failedAt.item)
  /\ failedAt.step = "polish" => raised.names = "final-polish"

\* C12 (no retries): the vision capability is called at most once per
\* sampled frame, the text-generation capability at most once per scene and
\* at most once for polishing; after a call has raised, no call follows.
C12_NoRetries ==
  /\ Len(describeLog) <= Len(frame_data)
  /\ \A i \in 1..Len(frame_data) :
       Cardinality({n \in 1..Len(describeLog) :
                      describeLog[n] = frame_data[i].timestamp}) <= 1
  /\ \A j \in 1..Len(genLog) :
       Cardinality({n \in SceneRequests : genLog[n].item = j}) <= 1
  /\ Cardinality(PolishRequests) <= 1
  /\ Len(genLog) <= Len(scenes) + 1
  /\ failedAt.step = "describe" =>
       /\ Len(describeLog) <= failedAt.item
       /\ genLog = <<>>
  /\ failedAt.step = "narrate" =>
       /\ Cardinality(SceneRequests) <= failedAt.item
       /\ PolishRequests = {}
  /\ failedAt.step = "polish" => Len(genLog) = Len(scenes) + 1

\* The narration call of the second scene raised after it was sent; the
\* three frames were described once each.
C12_Witness ==
  /\ failedAt = [step |-> "narrate", item |-> 2]
  /\ raised = ApiError
  /\ Cardinality(SceneRequests) = 2
  /\ Len(describeLog) = 3

\* Entry k of a timing list is the record of scene k: the timestamps of the
\* scene's first and last description and the scene's description texts in
\* their order.
TimingOfScene(entry, k) ==
  /\ entry.start_time = scenes[k][1].timestamp
  /\ entry.end_time = scenes[k][Len(scenes[k])].timestamp
  /\ Len(entry.original_descriptions) = Len(scenes[k])
  /\ \A i \in 1..Len(scenes[k]) :
       entry.original_descriptions[i] = scenes[k][i].narration

\* C13 (timing record content): the timing record written by
\* save_timing_data has exactly one entry per scene, in scene order, each
\* entry being the record of its scene; the list built during narration has
\* one such entry per scene narrated so far.
C13_TimingRecord ==
  /\ Segmented =>
       /\ Len(timing_data) = Len(scene_narrations)
       /\ Len(timing_data) <= Len(scenes)
       /\ \A k \in 1..Len(timing_data) : TimingOfScene(timing_data[k], k)
  /\ timingFile.state = "written" =>
       /\ Len(timingFile.content) = Len(scenes)
       /\ \A k \in 1..Len(scenes) : TimingOfScene(timingFile.content[k], k)

\* A timing record of two scenes was written, the second scene running over
\* two frames.
C13_Witness ==
  /\ timingFile.state = "written"
  /\ Len(scenes) = 2
  /\ Len(scenes[2]) = 2
  /\ timingFile.content[2].start_time < timingFile.content[2].end_time

\* Every character of the text is a whitespace character.
AllWhitespace(text) == \A i \in 1..Len(text) : text[i] \in Whitespace

\* The text is the response without its leading and trailing whitespace:
\* the response is the text between two runs of whitespace, and the text
\* neither starts nor ends with whitespace.
IsTrimOf(text, response) ==
  /\ text # <<>> =>
       /\ text[1] \notin Whitespace
       /\ text[Len(text)] \notin Whitespace
  /\ \E lead \in 0..(Len(response) - Len(text)) :
       /\ AllWhitespace(SubSeq(response, 1, lead))
       /\ SubSeq(response, lead + 1, lead + Len(text)) = text
       /\ AllWhitespace(SubSeq(response, lead + Len(text) + 1, Len(response)))

\* C17 (narration artifact content): the text generate_script wrote to the
\* narration file is exactly the answer of the polishing call without its
\* leading and trailing whitespace; nothing precedes or follows it.
C17_NarrationArtifact ==
  narrationFile.state = "written" =>
    /\ polishReturn # NoContent
    /\ IsTrimOf(narrationFile.content, polishReturn)

\* The polishing call answered with padded text and the file holds the text
\* without the padding.
C17_Witness ==
  /\ narrationFile.state = "written"
  /\ polishReturn = <<" ", "B", "\n">>
  /\ narrationFile.content = <<"B">>

\* The opening of a bracketed time tag.
TimestampTag == <<"[", "0", "0", ":">>

\* C18 as stated (no leaked timestamp tags): whatever the text-generation
\* capability answers, the polished narration, and so the narration file,
\* never holds the characters "[00:".
C18_NoTimestampTag ==
  /\ ~Contains(TimestampTag, polished_narration)
  /\ narrationFile.state = "written" =>
       ~Contains(TimestampTag, narrationFile.content)

\* C19 as stated (describe result trimming): the description stored for a
\* frame is the answer of the vision capability without its leading and
\* trailing whitespace; each scene narration is the trimmed answer of its
\* call and the polished narration the trimmed answer of the polishing call.
C19_ResultsTrimmed ==
  /\ Len(analysis_results) = Len(describeReturns)
  /\ \A i \in 1..Len(analysis_results) :
       describeReturns[i] # NoContent =>
         IsTrimOf(analysis_results[i].narration, describeReturns[i])
  /\ Segmented =>
       \A k \in 1..Len(scene_narrations) :
         IsTrimOf(scene_narrations[k], genReturns[k])
  /\ polishReturn # NoContent =>
       IsTrimOf(polished_narration, polishReturn)

\* No description of the loaded analysis holds a transition phrase.
NoPhraseLoaded ==
  \A i \in 1..Len(analysis_data) : ~HasPhrase(analysis_data[i].narration)

\* C14 as stated (end-to-end case): a 5 s video sampled every 2 s gives
\* exactly 2 frames, at 0 and 2, each described; without a transition
\* phrase there is one scene; a run that returns has produced both files,
\* and the one timing entry has start_time 0 and end_time 2.
C14_EndToEndTwoFrames ==
  /\ Sampled => FrameTimestamps = <<0, 2>>
  /\ analysisFile.state = "written" => describeLog = <<0, 2>>
  /\ (Segmented /\ NoPhraseLoaded) => Len(scenes) = 1
  /\ pc = "done" =>
       /\ narrationFile.state = "written"
       /\ timingFile.state = "written"
       /\ NoPhraseLoaded =>
            /\ Len(timingFile.content) = 1
            /\ timingFile.content[1].start_time = 0
            /\ timingFile.content[1].end_time = 2

\* C14 as amended (end-to-end case): a 5 s video sampled every 2 s gives
\* exactly 3 frames, at 0, 2 and 4, each described once; without a
\* transition phrase there is one scene; a run that returns has produced
\* both files, and the one timing entry has start_time 0 and end_time 4.
C14_EndToEndThreeFrames ==
  /\ Sampled => FrameTimestamps = <<0, 2, 4>>
  /\ analysisFile.state = "written" =>
       /\ describeLog = <<0, 2, 4>>
       /\ Len(analysisFile.content) = 3
  /\ (Segmented /\ NoPhraseLoaded) => Len(scenes) = 1
  /\ pc = "done" =>
       /\ narrationFile.state = "written"
       /\ timingFile.state = "written"
       /\ NoPhraseLoaded =>
            /\ Len(timingFile.content) = 1
            /\ timingFile.content[1].start_time = 0
            /\ timingFile.content[1].end_time = 4

\* The run on the 5 s video returned, with one scene over the three frames.
C14_Witness ==
  /\ pc = "done"
  /\ duration = 10
  /\ frame_interval = 2
  /\ NoPhraseLoaded
  /\ Len(scenes) = 1
  /\ Len(scenes[1]) = 3
  /\ timingFile.state = "written"
  /\ narrationFile.state = "written"

OverridePresent(custom) == custom # NoContent

\* C16 as stated (effective template instruction): for every template and
\* each of its two instructions, the effective instruction is the override
\* whenever one is present and the built-in default otherwise; after
\* reset_to_defaults both are the defaults and is_customized is false.
C16_OverrideIfPresent ==
  /\ \A id \in TemplateIds :
       LET template == templates[id]
       IN /\ analysis_prompt(template) =
               IF OverridePresent(template.custom_analysis_prompt)
               THEN template.custom_analysis_prompt
               ELSE DefaultPrompt("analysis", id)
          /\ narration_prompt(template) =
               IF OverridePresent(template.custom_narration_prompt)
               THEN template.custom_narration_prompt
               ELSE DefaultPrompt("narration", id)
  /\ templateOp.op = "reset" =>
       /\ analysis_prompt(templates[templateOp.id])
            = DefaultPrompt("analysis", templateOp.id)
       /\ narration_prompt(templates[templateOp.id])
            = DefaultPrompt("narration", templateOp.id)
       /\ ~is_customized(templates[templateOp.id])

\* A custom prompt field holds a text that is not empty.
OverrideNotEmpty(custom) == custom # NoContent /\ Len(custom) > 0

\* C16 as amended (effective template instruction): for every template and
\* each of its two instructions, the effective instruction is the override
\* whenever one is present and not empty, and the built-in default
\* otherwise, whatever the other instruction's override; a prompt just set
\* is the effective one exactly when it is not empty; after
\* reset_to_defaults both are the defaults and is_customized is false.
C16_OverrideIfNotEmpty ==
  /\ \A id \in TemplateIds :
       LET template == templates[id]
       IN /\ analysis_prompt(template) =
               IF OverrideNotEmpty(template.custom_analysis_prompt)
               THEN template.custom_analysis_prompt
               ELSE DefaultPrompt("analysis", id)
          /\ narration_prompt(template) =
               IF OverrideNotEmpty(template.custom_narration_prompt)
               THEN template.custom_narration_prompt
               ELSE DefaultPrompt("narration", id)
  /\ templateOp.op = "set_analysis" =>
       analysis_prompt(templates[templateOp.id]) =
         IF OverrideNotEmpty(templateOp.value)
         THEN templateOp.value
         ELSE DefaultPrompt("analysis", templateOp.id)
  /\ templateOp.op = "set_narration" =>
       narration_prompt(templates[templateOp.id]) =
         IF OverrideNotEmpty(templateOp.value)
         THEN templateOp.value
         ELSE DefaultPrompt("narration", templateOp.id)
  /\ templateOp.op = "reset" =>
       /\ analysis_prompt(templates[templateOp.id])
            = DefaultPrompt("analysis", templateOp.id)
       /\ narration_prompt(templates[templateOp.id])
            = DefaultPrompt("narration", templateOp.id)
       /\ ~is_customized(templates[templateOp.id])

\* A template with an analysis override and no narration override; and
\* another template, just reset, that had been customized.
C16_Witness ==
  /\ templates["room-tour"].custom_analysis_prompt = <<"p">>
  /\ templates["room-tour"].custom_narration_prompt = NoContent
  /\ analysis_prompt(templates["room-tour"]) = <<"p">>
  /\ templateOp.op = "reset"
  /\ templateOp.id = "outdoor-scene"
  /\ templates["outdoor-scene"].custom_analysis_prompt = NoContent

\* C20 as stated (exclusive output directory): no two runs, of either kind,
\* are ever given the same output directory, so no two runs under way at
\* the same time write into the same directory.
C20_ExclusiveOutputDirectory ==
  /\ \A i, j \in 1..Len(runs) :
       i # j => runs[i].output_dir # runs[j].output_dir
  /\ \A i, j \in 1..Len(runs) :
       (i # j /\ runs[i].active /\ runs[j].active)
         => runs[i].output_dir # runs[j].output_dir

\* The with block was left after a run that failed at one of the steps.
ExitedAfterFailure ==
  /\ context = "exited"
  /\ failedAt.step \in {"extract", "describe", "save"}

FrameFileOf(entry) == entry.timestamp

\* C26 as stated (frame references stay valid): after a run that returned
\* and whose context has been exited, every frame reference of the analysis
\* record written names a frame file that still exists.
C26_FrameReferencesValid ==
  (context = "exited" /\ failedAt = NoFailure
     /\ analysisFile.state = "written") =>
    \A i \in 1..Len(analysisFile.content) :
      FrameFileOf(analysisFile.content[i]) \in frameFiles

\* The timestamps of a list of entries hold no timestamp twice.
NoTimestampTwice(entries) ==
  \A i, j \in 1..Len(entries) :
    i # j => entries[i].timestamp # entries[j].timestamp

\* C27 as stated (one sampling pass per call): after any sequence of
\* analyze_video calls on one instance, frame_data holds exactly one entry
\* per sampled timestamp of one pass, each call describes every sampled
\* timestamp once, and the analysis record holds no timestamp twice.
C27_OneSamplingPass ==
  /\ Sampled =>
       /\ NoTimestampTwice(frame_data)
       /\ FrameTimestamps = FrameTimes(duration, frame_interval)
  /\ Len(describeLog)
       <= (repeatCalls + 1) * Len(FrameTimes(duration, frame_interval))
  /\ analysisFile.state = "written" => NoTimestampTwice(analysisFile.content)

\* C22: within a run every request is sent with the instruction the
\* template had when the run was started, whatever is done to the template
\* in the prompt editor meanwhile.
C22_StableInstruction ==
  \A tab \in Tabs :
    \A i \in 1..Len(workers[tab]) :
      \A k \in 1..Len(workers[tab][i].used) :
        workers[tab][i].used[k] = workers[tab][i].atStart

\* A step leaves each tab with at most one worker thread, and the step of
\* a start request dropped by a tab is made while the tab is processing and
\* leaves the window and the templates as they are.
SingleFlightStep ==
  \A tab \in Tabs :
    /\ Len(workers'[tab]) <= 1
    /\ (startIgnored'[tab] /\ ~startIgnored[tab]) =>
         /\ processing[tab]
         /\ UNCHANGED <<processing, startButton, workers, posted, is_active,
                        handlersRun, templates>>

\* C23: each tab has at most one worker thread running, and a start request
\* received while the tab is processing starts no thread and changes
\* nothing.
C23_SingleFlight == [][SingleFlightStep]_vars

C23_Witness ==
  /\ startIgnored["analysis"]
  /\ Len(workers["analysis"]) = 1
  /\ Len(workers["analysis"][1].used) = 1
  /\ processing["narration"]

\* The tab is back to rest after exactly one handler.
Recovered(tab) ==
  /\ ~processing[tab]
  /\ startButton[tab] = "normal"
  /\ Len(handlersRun[tab]) = 1

\* C24: every run started from a tab leads to exactly one of its completion
\* and error handlers, after which processing is false and the start button
\* enabled, whether the run succeeded or failed at any step.
C24_UiRecovers ==
  /\ \A tab \in Tabs : processing[tab] ~> Recovered(tab)
  /\ [](\A tab \in Tabs :
          /\ Len(handlersRun[tab]) <= 1
          /\ processing[tab] => handlersRun[tab] = <<>>
          /\ ~processing[tab] => startButton[tab] = "normal")

C24_Witness ==
  /\ Recovered("analysis")
  /\ handlersRun["analysis"][1] = [handler |-> "error", error |-> "construct"]
  /\ Recovered("narration")
  /\ handlersRun["narration"][1].handler = "complete"

\* C25: while a tab is processing the shared tracker is active.
C25_TrackerActiveWhileProcessing ==
  (\E tab \in Tabs : processing[tab]) => is_active

\* The two managers have the same overrides and the same instructions.
SameTemplates(loaded, saved) ==
  \A id \in TemplateIds :
    /\ loaded[id].custom_analysis_prompt = saved[id].custom_analysis_prompt
    /\ loaded[id].custom_narration_prompt = saved[id].custom_narration_prompt
    /\ analysis_prompt(loaded[id]) = analysis_prompt(saved[id])
    /\ narration_prompt(loaded[id]) = narration_prompt(saved[id])

\* A manager constructed right after a save has the templates that were
\* saved.
RoundTripStep ==
  (templateOp = SaveOp /\ templateOp' = LoadOp) =>
    SameTemplates(templates', templates)

\* C28: after edits and resets followed by save_custom_prompts, a newly
\* constructed TemplateManager has for every template the custom overrides
\* and the effective instructions of the manager that saved, also when
\* every template was reset before the save.
C28_PersistenceRoundTrip == [][RoundTripStep]_vars

\* load_custom_prompts fails on the file: it cannot be read, is no JSON, or
\* holds data that is no dict for a template of the manager.
LoadFails(file) ==
  \/ file.state \in {"unreadable", "malformed"}
  \/ /\ file.state = "json"
     /\ \E i \in 1..Len(file.entries) :
          /\ file.entries[i].key \in TemplateIds
          /\ file.entries[i].kind # "dict"

\* C30: a manager whose load_custom_prompts failed has the built-in
\* defaults in every template, and a manager has the four built-in ids
\* whatever the file held.
C30_LoadFailureFallsBack ==
  templateOp = LoadOp =>
    /\ DOMAIN templates = TemplateIds
    /\ LoadFails(customPromptsFile) =>
         \A id \in TemplateIds : templates[id] = BuiltInTemplate(id)

\* C29: after Cancel, and after Save Changes refused for an empty prompt,
\* the template is as it was when the dialog was opened, whatever was done
\* in the dialog before.
C29_UnchangedUnlessSaved ==
  dialog.last \in {"cancel", "save_refused"} =>
    templates[dialog.id] = dialog.opened_on

====
